---- MODULE Spec2Model ----
(***************************************************************************)
(* Model of the admin authentication gate (middleware.ts,                  *)
(* lib/isValidPassword.ts) and of the product server actions               *)
(* (app/admin/_actions/products.ts) of mini-ecommerce-next.                *)
(*                                                                         *)
(* Strings are sequences of code points, byte buffers are sequences of     *)
(* bytes.  A JavaScript value that may be null/undefined is an option:     *)
(* Undefined is <<>> and a present value v is <<v>>.                       *)
(***************************************************************************)
EXTENDS Integers, Sequences, FiniteSets, TLC

VARIABLES env, req, db, storage, call, uuids

vars == <<env, req, db, storage, call, uuids>>
gateVars == <<env, req>>
productVars == <<db, storage, call, uuids>>

(***************************************************************************)
(* Bounds                                                                  *)
(***************************************************************************)
MaxLen == 5          \* longest decoded credential payload in Spec
MaxReq == 2          \* request slots (concurrent requests in SpecConc)
MaxProducts == 2     \* product records in the database
MaxUuid == 8         \* identifiers crypto.randomUUID and the database hand out

(***************************************************************************)
(* JavaScript values                                                       *)
(***************************************************************************)
Undefined == <<>>
Some(v) == <<v>>

\* the separators the gate splits on: " " and ":"
ChSpace == 32
ChColon == 58

\* "Basic", "a", "=", "!!!", "/w=="
StrBasic == <<66, 97, 115, 105, 99>>
StrA == <<97>>
StrPad == <<61>>
StrBangs == <<33, 33, 33>>
StrHighByte == <<47, 119, 61, 61>>

\* arr[i] of a JavaScript array, 0-based: undefined past the end
Index(arr, i) == IF i + 1 <= Len(arr) THEN Some(arr[i + 1]) ELSE Undefined

\* String.prototype.split with a one-character separator
RECURSIVE Split(_, _)
Split(s, sep) ==
  IF \E i \in 1..Len(s) : s[i] = sep
  THEN LET i == CHOOSE k \in 1..Len(s) : s[k] = sep /\ \A j \in 1..(k - 1) : s[j] # sep
       IN  <<SubSeq(s, 1, i - 1)>> \o Split(SubSeq(s, i + 1, Len(s)), sep)
  ELSE <<s>>

(***************************************************************************)
(* Base64 (Buffer.from(s, "base64") and buffer.toString("base64"))         *)
(***************************************************************************)
\* value of a base64 (or base64url) character; 64 for an illegal character
unbase64(c) ==
  IF c >= 65 /\ c <= 90 THEN c - 65
  ELSE IF c >= 97 /\ c <= 122 THEN c - 71
  ELSE IF c >= 48 /\ c <= 57 THEN c + 4
  ELSE IF c = 43 \/ c = 45 THEN 62
  ELSE IF c = 47 \/ c = 95 THEN 63
  ELSE 64

\* the base64 character of a 6-bit value
base64Char(v) ==
  IF v < 26 THEN v + 65
  ELSE IF v < 52 THEN v + 71
  ELSE IF v < 62 THEN v - 4
  ELSE IF v = 62 THEN 43
  ELSE 47

\* the legal characters of s up to the first '=': illegal ones are skipped
RECURSIVE Sextets(_)
Sextets(s) ==
  IF s = <<>> THEN <<>>
  ELSE IF s[1] = StrPad[1] THEN <<>>
  ELSE IF unbase64(s[1]) < 64 THEN <<unbase64(s[1])>> \o Sextets(Tail(s))
  ELSE Sextets(Tail(s))

RECURSIVE SextetsToBytes(_)
SextetsToBytes(q) ==
  IF Len(q) < 2 THEN <<>>
  ELSE IF Len(q) = 2 THEN <<q[1] * 4 + (q[2] \div 16)>>
  ELSE IF Len(q) = 3
       THEN <<q[1] * 4 + (q[2] \div 16), (q[2] % 16) * 16 + (q[3] \div 4)>>
  ELSE <<q[1] * 4 + (q[2] \div 16), (q[2] % 16) * 16 + (q[3] \div 4),
         (q[3] % 4) * 64 + q[4]>> \o SextetsToBytes(SubSeq(q, 5, Len(q)))

\* Buffer.from(s, "base64"): lenient, never throws on a string
Base64Decode(s) == SextetsToBytes(Sextets(s))

\* buffer.toString("base64"): padded standard alphabet
RECURSIVE Base64Encode(_)
Base64Encode(b) ==
  IF Len(b) = 0 THEN <<>>
  ELSE IF Len(b) = 1
       THEN <<base64Char(b[1] \div 4), base64Char((b[1] % 4) * 16), StrPad[1], StrPad[1]>>
  ELSE IF Len(b) = 2
       THEN <<base64Char(b[1] \div 4), base64Char((b[1] % 4) * 16 + (b[2] \div 16)),
              base64Char((b[2] % 16) * 4), StrPad[1]>>
  ELSE <<base64Char(b[1] \div 4), base64Char((b[1] % 4) * 16 + (b[2] \div 16)),
         base64Char((b[2] % 16) * 4 + (b[3] \div 64)), base64Char(b[3] % 64)>>
       \o Base64Encode(SubSeq(b, 4, Len(b)))

(***************************************************************************)
(* UTF-8 (buffer.toString() and TextEncoder.encode)                        *)
(***************************************************************************)
\* buffer.toString(): an ASCII byte is its character; the other bytes the
\* inputs produce are ill-formed sequences, each decoded to U+FFFD
Utf8Decode(b) == [i \in 1..Len(b) |-> IF b[i] < 128 THEN b[i] ELSE 65533]

\* the UTF-8 bytes of one code point (ASCII and U+FFFD occur)
Utf8Char(c) == IF c < 128 THEN <<c>> ELSE <<239, 191, 189>>

RECURSIVE Utf8Bytes(_)
Utf8Bytes(s) == IF s = <<>> THEN <<>> ELSE Utf8Char(s[1]) \o Utf8Bytes(Tail(s))

\* new TextEncoder().encode(x): an undefined argument encodes as ""
TextEncode(x) == IF x = Undefined THEN <<>> ELSE Utf8Bytes(x[1])


(***************************************************************************)
(* Credential Verifier (lib/isValidPassword.ts)                            *)
(***************************************************************************)
\* crypto.subtle.digest("SHA-512", bytes), modelled as a collision-free map
\* from byte sequences to byte sequences (length, then each byte scrambled
\* by an invertible map that depends on its position)
Sha512(m) == <<Len(m)>> \o [i \in 1..Len(m) |-> (m[i] * 7 + i) % 256]

hashPassword(password) == Base64Encode(Sha512(TextEncode(password)))

\* hashedPassword is the option read from process.env
isValidPassword(password, hashedPassword) == Some(hashPassword(password)) = hashedPassword

(***************************************************************************)
(* Request Gate (middleware.ts)                                            *)
(***************************************************************************)
Reqs == 1..MaxReq

\* config.matcher "/admin/:path*": the literal segments, then any segments
MatcherPrefix == <<"admin">>

\* a matcher that compares text, not segments: "/adminx" passes for "/admin"
MatchesMatcher_TextPrefix(path) ==
  /\ Len(path) >= Len(MatcherPrefix)
  /\ path[1] \in {"admin", "adminx"}

\* a path is the sequence of its segments: "/admin/products" is <<"admin", "products">>
MatchesMatcher(path) ==
  /\ Len(path) >= Len(MatcherPrefix)
  /\ SubSeq(path, 1, Len(MatcherPrefix)) = MatcherPrefix

\* what a finished request got: kind is "bypass" (matcher did not select the
\* request), "next" (middleware returned undefined), "response", or "throw"
NoOutcome == [kind |-> "none", status |-> 0, body |-> "", headers |-> {}]
Bypass == [kind |-> "bypass", status |-> 0, body |-> "", headers |-> {}]
PassThrough == [kind |-> "next", status |-> 0, body |-> "", headers |-> {}]
Fault == [kind |-> "throw", status |-> 0, body |-> "", headers |-> {}]

\* the rejection without its challenge header
UnauthorizedResponse_NoChallenge ==
  [kind |-> "response", status |-> 401, body |-> "Unauthorized", headers |-> {}]

\* new NextResponse("Unauthorized", {status: 401, headers: {...}})
UnauthorizedResponse ==
  [kind |-> "response", status |-> 401, body |-> "Unauthorized",
   headers |-> {<<"WWW-Authenticate", "Basic">>}]

\* a || b
JsOr(a, b) == IF a # Undefined /\ a[1] # <<>> THEN a ELSE b

\* req.headers.get("authorization") || req.headers.get("Authorization")
AuthHeader(header) == JsOr(header, header)

\* authHeader.split(" ")[1]
CredentialToken(authHeader) == Index(Split(authHeader, ChSpace), 1)

\* Buffer.from(token, "base64").toString().split(":")
DecodedParts(token) == Split(Utf8Decode(Base64Decode(token)), ChColon)

\* const [username, password] = parts
DecodedUsername(parts) == parts[1]
DecodedPassword(parts) == Index(parts, 1)

\* the username test moved behind the digest: nothing stops the digest
UsernameMatches_AfterDigest(username) == TRUE

\* username === process.env.ADMIN_USERNAME, the left operand of &&
UsernameMatches(username) == Some(username) = env.ADMIN_USERNAME

IdleReq ==
  [pc |-> "idle", path |-> <<>>, header |-> Undefined, username |-> Undefined,
   password |-> Undefined, digests |-> 0, out |-> NoOutcome]

\* the password kept in one place for all requests: the latest suspended
\* request's password is what every digest is computed over
DigestInput_Shared(r) ==
  LET suspended == {q \in Reqs : req[q].pc = "digest"}
  IN  req[CHOOSE q \in suspended : \A k \in suspended : k <= q].password

\* the password a suspended request's digest is computed over
DigestInput(r) == req[r].password

\* The framework receives a request.  A path the matcher does not select
\* never reaches middleware.  Otherwise middleware calls isAuthenticated,
\* which runs without suspending up to the call of crypto.subtle.digest.
Request(r, path, header) ==
  /\ req[r].pc = "idle"
  /\ LET arrived == [IdleReq EXCEPT !.path = path, !.header = header]
         authHeader == AuthHeader(header)
     IN  IF ~MatchesMatcher(path)
         THEN req' = [req EXCEPT ![r] = [arrived EXCEPT !.pc = "done", !.out = Bypass]]
         ELSE IF authHeader = Undefined
         THEN req' = [req EXCEPT ![r] =
                        [arrived EXCEPT !.pc = "done", !.out = UnauthorizedResponse]]
         ELSE IF CredentialToken(authHeader[1]) = Undefined
         THEN \* Buffer.from(undefined, "base64") throws a TypeError
              req' = [req EXCEPT ![r] = [arrived EXCEPT !.pc = "done", !.out = Fault]]
         ELSE LET parts == DecodedParts(CredentialToken(authHeader[1])[1])
                  username == DecodedUsername(parts)
                  password == DecodedPassword(parts)
              IN  IF UsernameMatches(username)
                  THEN req' = [req EXCEPT ![r] =
                                 [arrived EXCEPT !.pc = "digest",
                                                 !.username = Some(username),
                                                 !.password = password,
                                                 !.digests = 1]]
                  ELSE req' = [req EXCEPT ![r] =
                                 [arrived EXCEPT !.pc = "done",
                                                 !.username = Some(username),
                                                 !.password = password,
                                                 !.out = UnauthorizedResponse]]
  /\ UNCHANGED <<env, productVars>>

\* crypto.subtle.digest resolves: hashPassword, isValidPassword and
\* isAuthenticated return, middleware answers
DigestResume(r) ==
  /\ req[r].pc = "digest"
  /\ req' = [req EXCEPT ![r].pc = "done",
                        ![r].out = IF isValidPassword(DigestInput(r), env.HASHED_ADMIN_PASSWORD)
                                   THEN PassThrough
                                   ELSE UnauthorizedResponse]
  /\ UNCHANGED <<env, productVars>>

\* the answered request leaves the server
Release(r) ==
  /\ req[r].pc = "done"
  /\ req' = [req EXCEPT ![r] = IdleReq]
  /\ UNCHANGED <<env, productVars>>


(***************************************************************************)
(* Product server actions (app/admin/_actions/products.ts)                 *)
(*                                                                         *)
(* db is the product table, storage the set of files on disk.  One server  *)
(* action runs at a time; call is its position and its local variables.    *)
(* A path is the sequence of its segments: "/products/x" is                *)
(* <<"", "products", x>>.                                                  *)
(***************************************************************************)
\* the submitted form: file is "missing", "empty" (size 0) or "data";
\* image is "missing", "empty", "text" (not image/*) or "image"
Forms ==
  [name : {"", "Book"}, description : {"", "Text"}, priceInCents : {0, 100},
   file : {"missing", "empty", "data"}, image : {"missing", "empty", "text", "image"}]

\* fileSchema: an instance of File
fileSchema(f) == f # "missing"

\* imageSchema: a File that is empty or of an image type
imageSchema(f) == fileSchema(f) /\ (f = "empty" \/ f = "image")

\* the fields addSchema and editSchema share
textSchema(form) ==
  /\ form.name # ""
  /\ form.description # ""
  /\ form.priceInCents >= 1

addSchema(form) ==
  /\ textSchema(form)
  /\ fileSchema(form.file) /\ form.file # "empty"
  /\ imageSchema(form.image) /\ form.image # "empty"

\* file and image are optional
editSchema(form) ==
  /\ textSchema(form)
  /\ form.file = "missing" \/ fileSchema(form.file)
  /\ form.image = "missing" \/ imageSchema(form.image)

\* data.file != null && data.file.size > 0
HasNewFile(form) == form.file = "data"
HasNewImage(form) == form.image \notin {"missing", "empty"}

\* `products/${uuid}-${name}` and `/products/${uuid}-${name}`
FilePathFor(u) == <<"products", u>>
ImagePathFor(u) == <<"", "products", u>>

\* `public${imagePath}`
PublicPath(imagePath) == <<"public">> \o Tail(imagePath)

NoProduct == <<>>
NoForm ==
  [name |-> "", description |-> "", priceInCents |-> 0, file |-> "missing", image |-> "missing"]

IdleCall ==
  [op |-> "none", pc |-> "idle", id |-> 0, data |-> NoForm, product |-> NoProduct,
   filePath |-> <<>>, imagePath |-> <<>>, written |-> {}, result |-> "none"]

\* the server action has returned (or thrown): only its result remains
Returned(op, result) == [IdleCall EXCEPT !.op = op, !.pc = "returned", !.result = result]

Find(id) == {p \in db : p.id = id}

\* addProduct that never writes the image
AddNextPc_SkipImage(pc) ==
  IF pc = "writeFile" THEN "create"
  ELSE IF pc = "writeImage" THEN "create"
  ELSE "returned"

\* addProduct: what follows a completed step
AddNextPc(pc) ==
  IF pc = "writeFile" THEN "writeImage"
  ELSE IF pc = "writeImage" THEN "create"
  ELSE "returned"

\* addProduct, up to the first writeFile
AddProduct(form) ==
  /\ call.pc = "idle"
  /\ IF ~addSchema(form)
     THEN /\ call' = Returned("addProduct", "fieldErrors")
          /\ UNCHANGED uuids
     ELSE /\ Cardinality(db) < MaxProducts
          /\ uuids + 3 <= MaxUuid
          /\ uuids' = uuids + 1
          /\ call' = [IdleCall EXCEPT !.op = "addProduct", !.pc = "writeFile", !.data = form,
                                      !.filePath = FilePathFor(uuids + 1)]
  /\ UNCHANGED <<db, storage, gateVars>>

\* fs.writeFile(filePath, ...), then the image path is drawn
AddWriteFile ==
  /\ call.op = "addProduct" /\ call.pc = "writeFile"
  /\ storage' = storage \cup {call.filePath}
  /\ uuids' = uuids + 1
  /\ call' = [call EXCEPT !.pc = AddNextPc("writeFile"),
                          !.imagePath = ImagePathFor(uuids + 1),
                          !.written = @ \cup {call.filePath}]
  /\ UNCHANGED <<db, gateVars>>

\* fs.writeFile(`public${imagePath}`, ...)
AddWriteImage ==
  /\ call.op = "addProduct" /\ call.pc = "writeImage"
  /\ storage' = storage \cup {PublicPath(call.imagePath)}
  /\ call' = [call EXCEPT !.pc = AddNextPc("writeImage"),
                          !.written = @ \cup {PublicPath(call.imagePath)}]
  /\ UNCHANGED <<db, uuids, gateVars>>

\* db.product.create, revalidatePath, redirect
AddCreate ==
  /\ call.op = "addProduct" /\ call.pc = "create"
  /\ db' = db \cup {[id |-> uuids + 1, isAvailableForPurchase |-> FALSE,
                     name |-> call.data.name, description |-> call.data.description,
                     priceInCents |-> call.data.priceInCents,
                     filePath |-> call.filePath, imagePath |-> call.imagePath]}
  /\ uuids' = uuids + 1
  /\ call' = [call EXCEPT !.pc = AddNextPc("create"), !.result = "redirect"]
  /\ UNCHANGED <<storage, gateVars>>

\* updateProduct: the step that follows validation, a file or the image
UpdateAfter(pc, form) ==
  IF pc = "start" /\ HasNewFile(form) THEN "unlinkFile"
  ELSE IF pc \in {"start", "writeFile"} /\ HasNewImage(form) THEN "unlinkImage"
  ELSE "update"

UuidsNeeded(form) ==
  (IF HasNewFile(form) THEN 1 ELSE 0) + (IF HasNewImage(form) THEN 1 ELSE 0)

\* updateProduct, up to the first unlink (or to db.product.update)
UpdateProduct(id, form) ==
  /\ call.pc = "idle"
  /\ IF ~editSchema(form)
     THEN call' = Returned("updateProduct", "fieldErrors")
     ELSE IF Find(id) = {}
     THEN call' = Returned("updateProduct", "notFound")
     ELSE LET product == CHOOSE p \in Find(id) : TRUE
          IN  /\ uuids + UuidsNeeded(form) <= MaxUuid
              /\ call' = [IdleCall EXCEPT !.op = "updateProduct",
                                          !.pc = UpdateAfter("start", form),
                                          !.id = id, !.data = form,
                                          !.product = Some(product),
                                          !.filePath = product.filePath,
                                          !.imagePath = product.imagePath]
  /\ UNCHANGED <<db, storage, uuids, gateVars>>

\* fs.unlink(product.filePath), then the new file path is drawn
UpdateUnlinkFile ==
  /\ call.op = "updateProduct" /\ call.pc = "unlinkFile"
  /\ IF call.product[1].filePath \notin storage
     THEN /\ call' = Returned("updateProduct", "throw")
          /\ UNCHANGED <<storage, uuids>>
     ELSE /\ storage' = storage \ {call.product[1].filePath}
          /\ uuids' = uuids + 1
          /\ call' = [call EXCEPT !.pc = "writeFile", !.filePath = FilePathFor(uuids + 1)]
  /\ UNCHANGED <<db, gateVars>>

\* fs.writeFile(filePath, ...)
UpdateWriteFile ==
  /\ call.op = "updateProduct" /\ call.pc = "writeFile"
  /\ storage' = storage \cup {call.filePath}
  /\ call' = [call EXCEPT !.pc = UpdateAfter("writeFile", call.data),
                          !.written = @ \cup {call.filePath}]
  /\ UNCHANGED <<db, uuids, gateVars>>

\* fs.unlink(`public${product.imagePath}`), then the new image path is drawn
UpdateUnlinkImage ==
  /\ call.op = "updateProduct" /\ call.pc = "unlinkImage"
  /\ IF PublicPath(call.product[1].imagePath) \notin storage
     THEN /\ call' = Returned("updateProduct", "throw")
          /\ UNCHANGED <<storage, uuids>>
     ELSE /\ storage' = storage \ {PublicPath(call.product[1].imagePath)}
          /\ uuids' = uuids + 1
          /\ call' = [call EXCEPT !.pc = "writeImage", !.imagePath = ImagePathFor(uuids + 1)]
  /\ UNCHANGED <<db, gateVars>>

\* fs.writeFile(`public${imagePath}`, ...)
UpdateWriteImage ==
  /\ call.op = "updateProduct" /\ call.pc = "writeImage"
  /\ storage' = storage \cup {PublicPath(call.imagePath)}
  /\ call' = [call EXCEPT !.pc = UpdateAfter("writeImage", call.data),
                          !.written = @ \cup {PublicPath(call.imagePath)}]
  /\ UNCHANGED <<db, uuids, gateVars>>

\* db.product.update, revalidatePath, redirect
UpdateRecord ==
  /\ call.op = "updateProduct" /\ call.pc = "update"
  /\ db' = {IF p.id = call.id
            THEN [p EXCEPT !.name = call.data.name,
                           !.description = call.data.description,
                           !.priceInCents = call.data.priceInCents,
                           !.filePath = call.filePath,
                           !.imagePath = call.imagePath]
            ELSE p : p \in db}
  /\ call' = [call EXCEPT !.pc = "returned", !.result = "redirect"]
  /\ UNCHANGED <<storage, uuids, gateVars>>

\* toggleProductAvailability: db.product.update rejects an unknown id
ToggleProductAvailability(id, isAvailableForPurchase) ==
  /\ call.pc = "idle"
  /\ IF Find(id) = {}
     THEN /\ call' = Returned("toggleProductAvailability", "throw")
          /\ UNCHANGED db
     ELSE /\ db' = {IF p.id = id
                    THEN [p EXCEPT !.isAvailableForPurchase = isAvailableForPurchase]
                    ELSE p : p \in db}
          /\ call' = Returned("toggleProductAvailability", "ok")
  /\ UNCHANGED <<storage, uuids, gateVars>>

\* deleteProduct, up to the first unlink: db.product.delete rejects an unknown id
DeleteProduct(id) ==
  /\ call.pc = "idle"
  /\ IF Find(id) = {}
     THEN /\ call' = Returned("deleteProduct", "throw")
          /\ UNCHANGED db
     ELSE LET product == CHOOSE p \in Find(id) : TRUE
          IN  /\ db' = db \ {product}
              /\ call' = [IdleCall EXCEPT !.op = "deleteProduct", !.pc = "unlinkFile",
                                          !.id = id, !.product = Some(product)]
  /\ UNCHANGED <<storage, uuids, gateVars>>

\* fs.unlink(product.filePath)
DeleteUnlinkFile ==
  /\ call.op = "deleteProduct" /\ call.pc = "unlinkFile"
  /\ IF call.product[1].filePath \notin storage
     THEN /\ call' = Returned("deleteProduct", "throw")
          /\ UNCHANGED storage
     ELSE /\ storage' = storage \ {call.product[1].filePath}
          /\ call' = [call EXCEPT !.pc = "unlinkImage"]
  /\ UNCHANGED <<db, uuids, gateVars>>

\* fs.unlink(`public${product.imagePath}`), revalidatePath
DeleteUnlinkImage ==
  /\ call.op = "deleteProduct" /\ call.pc = "unlinkImage"
  /\ IF PublicPath(call.product[1].imagePath) \notin storage
     THEN /\ call' = Returned("deleteProduct", "throw")
          /\ UNCHANGED storage
     ELSE /\ storage' = storage \ {PublicPath(call.product[1].imagePath)}
          /\ call' = [call EXCEPT !.pc = "returned", !.result = "ok"]
  /\ UNCHANGED <<db, uuids, gateVars>>

\* the result has been delivered: the next server action may run
Return ==
  /\ call.pc = "returned"
  /\ call' = IdleCall
  /\ UNCHANGED <<db, storage, uuids, gateVars>>

(***************************************************************************)
(* Inputs and specifications of the gate                                   *)
(***************************************************************************)
\* the strings over {"a", ":"} of length n, and of length at most n
RECURSIVE StringsOfLen(_)
StringsOfLen(n) ==
  IF n = 0 THEN {<<>>}
  ELSE {s \o <<c>> : s \in StringsOfLen(n - 1), c \in {StrA[1], ChColon}}

Payloads == UNION {StringsOfLen(n) : n \in 0..MaxLen}

\* what a client sends for a payload: "Basic " + base64(utf8(payload))
BasicHeader(payload) == StrBasic \o <<ChSpace>> \o Base64Encode(Utf8Bytes(payload))

HeaderOf == [p \in Payloads |-> Some(BasicHeader(p))]

\* "", "Basic", "Basic !!!", "Basic /w==" (one byte, no text)
BrokenHeaders ==
  {Some(<<>>), Some(StrBasic), Some(StrBasic \o <<ChSpace>> \o StrBangs),
   Some(StrBasic \o <<ChSpace>> \o StrHighByte)}

Headers == {Undefined} \cup BrokenHeaders \cup {HeaderOf[p] : p \in Payloads}

Paths == {<<>>, <<"adminx">>, <<"admin">>, <<"admin", "products">>}

\* process.env: a variable that is not set reads as undefined
ConfigPasswords == {<<>>, StrA, StrA \o <<ChColon>> \o StrA}
Envs ==
  [ADMIN_USERNAME : {Undefined, Some(StrA)},
   HASHED_ADMIN_PASSWORD :
     {Undefined} \cup {Some(hashPassword(Some(p))) : p \in ConfigPasswords}]

ProductsIdle ==
  /\ db = {}
  /\ storage = {}
  /\ uuids = 0
  /\ call = IdleCall

Init ==
  /\ env \in Envs
  /\ req = [r \in Reqs |-> IdleReq]
  /\ ProductsIdle

NoneInFlight == \A q \in Reqs : req[q].pc = "idle"

\* requests served one at a time, over every header and path
Next ==
  \/ \E r \in Reqs, path \in Paths, header \in Headers :
       NoneInFlight /\ Request(r, path, header)
  \/ \E r \in Reqs : DigestResume(r)
  \/ \E r \in Reqs : Release(r)

Spec == Init /\ [][Next]_vars

\* concurrent requests under one configuration: user "a", password "a"
ConcEnv ==
  [ADMIN_USERNAME |-> Some(StrA), HASHED_ADMIN_PASSWORD |-> Some(hashPassword(Some(StrA)))]

ConcHeaders == {Undefined, Some(StrBasic)} \cup {HeaderOf[p] : p \in StringsOfLen(3)}

ConcPaths == {<<"adminx">>, <<"admin", "products">>}

InitConc ==
  /\ env = ConcEnv
  /\ req = [r \in Reqs |-> IdleReq]
  /\ ProductsIdle

NextConc ==
  \/ \E r \in Reqs, path \in ConcPaths, header \in ConcHeaders : Request(r, path, header)
  \/ \E r \in Reqs : DigestResume(r)
  \/ \E r \in Reqs : Release(r)

SpecConc == InitConc /\ [][NextConc]_vars


(***************************************************************************)
(* Properties of the gate                                                  *)
(***************************************************************************)
\* the reading of a payload "username:password" the specification requires:
\* username is what precedes the first colon, password everything after it
HasColon(p) == \E i \in 1..Len(p) : p[i] = ChColon
FirstColon(p) == CHOOSE i \in 1..Len(p) : p[i] = ChColon /\ \A j \in 1..(i - 1) : p[j] # ChColon
UserOf(p) == SubSeq(p, 1, FirstColon(p) - 1)
PasswordOf(p) == SubSeq(p, FirstColon(p) + 1, Len(p))

\* a path under /admin
Gated(path) == path # <<>> /\ path[1] = "admin"

\* request r was on a gated path and has been answered
Answered(r) == req[r].pc = "done" /\ Gated(req[r].path)

Allowed(r) == req[r].out.kind = "next"
Rejected401(r) == req[r].out.kind = "response" /\ req[r].out.status = 401

\* C1: a gated request whose header is "Basic " + base64(username:password),
\* with username the configured ADMIN_USERNAME and the digest of password the
\* configured HASHED_ADMIN_PASSWORD, is allowed and never answered 401.
C1_ValidCredentialsAllowed ==
  \A r \in Reqs, p \in Payloads :
    ( /\ Answered(r)
      /\ req[r].header = HeaderOf[p]
      /\ HasColon(p)
      /\ Some(UserOf(p)) = env.ADMIN_USERNAME
      /\ Some(hashPassword(Some(PasswordOf(p)))) = env.HASHED_ADMIN_PASSWORD )
    => Allowed(r)

\* C2: no false accept: a gated request whose payload is username:password
\* (password being everything after the first colon) is answered 401 when
\* the username or the digest of that password differs from the configuration.
C2_NoFalseAccept ==
  \A r \in Reqs, p \in Payloads :
    ( /\ Answered(r)
      /\ req[r].header = HeaderOf[p]
      /\ HasColon(p)
      /\ \/ Some(UserOf(p)) # env.ADMIN_USERNAME
         \/ Some(hashPassword(Some(PasswordOf(p)))) # env.HASHED_ADMIN_PASSWORD )
    => Rejected401(r)

\* the malformed header values: empty, no second token, no base64 text,
\* no text in the payload, no colon in the payload
Malformed(header) ==
  \/ header \in BrokenHeaders
  \/ \E p \in Payloads : ~HasColon(p) /\ header = HeaderOf[p]

\* C3: every malformed Authorization header value is answered 401, and no
\* gate evaluation raises a fault: the outcomes are allow or 401 only.
C3_MalformedRejectedNoFault ==
  \A r \in Reqs :
    Answered(r) =>
      /\ Allowed(r) \/ Rejected401(r)
      /\ Malformed(req[r].header) => Rejected401(r)

\* C4: the payload is split on the first colon only: when the password part
\* contains colons, the password handed to the Credential Verifier is the
\* whole of it.
C4_SplitOnFirstColon ==
  \A r \in Reqs, p \in Payloads :
    ( /\ req[r].digests = 1
      /\ req[r].header = HeaderOf[p]
      /\ HasColon(p)
      /\ HasColon(PasswordOf(p)) )
    => req[r].password = Some(PasswordOf(p))

\* C5: a gated request with no Authorization header is answered with status
\* 401, body "Unauthorized" and header WWW-Authenticate: Basic, and every
\* response the gate emits has that status and that header.
C5_MissingHeaderChallenge ==
  \A r \in Reqs :
    /\ (Answered(r) /\ req[r].header = Undefined) =>
         /\ req[r].out.kind = "response"
         /\ req[r].out.status = 401
         /\ req[r].out.body = "Unauthorized"
         /\ req[r].out.headers = {<<"WWW-Authenticate", "Basic">>}
    /\ req[r].out.kind = "response" =>
         /\ req[r].out.status = 401
         /\ <<"WWW-Authenticate", "Basic">> \in req[r].out.headers

C5_Witness ==
  \E r \in Reqs : Answered(r) /\ req[r].header = Undefined /\ req[r].out.status = 401

\* C6: with ADMIN_USERNAME or HASHED_ADMIN_PASSWORD unset, the gate denies
\* (answers 401 to) every gated request, whatever its header.
C6_AbsentConfigDeniesAll ==
  (env.ADMIN_USERNAME = Undefined \/ env.HASHED_ADMIN_PASSWORD = Undefined) =>
    \A r \in Reqs : Answered(r) => Rejected401(r)

\* the outcome of one request evaluated alone: middleware as a function of
\* the path, the header and the configuration
SoloOutcome(path, header) ==
  IF ~MatchesMatcher(path) THEN Bypass
  ELSE IF AuthHeader(header) = Undefined THEN UnauthorizedResponse
  ELSE IF CredentialToken(AuthHeader(header)[1]) = Undefined THEN Fault
  ELSE LET parts == DecodedParts(CredentialToken(AuthHeader(header)[1])[1])
       IN  IF /\ Some(DecodedUsername(parts)) = env.ADMIN_USERNAME
              /\ isValidPassword(DecodedPassword(parts), env.HASHED_ADMIN_PASSWORD)
           THEN PassThrough
           ELSE UnauthorizedResponse

\* C7: the gate is stateless: however concurrent requests interleave at the
\* digest suspension point, each answered request has the outcome it gets
\* when evaluated alone, so requests with the same path and header get the
\* same outcome.
C7_Stateless ==
  /\ \A r \in Reqs :
       req[r].pc = "done" => req[r].out = SoloOutcome(req[r].path, req[r].header)
  /\ \A r, q \in Reqs :
       ( /\ req[r].pc = "done"
         /\ req[q].pc = "done"
         /\ req[r].path = req[q].path
         /\ req[r].header = req[q].header )
       => req[r].out = req[q].out

\* a request allowed although it resumed while another request, with another
\* password, was suspended at its digest
C7_Witness ==
  \E r, q \in Reqs :
    /\ r # q
    /\ req[r].pc = "done"
    /\ Allowed(r)
    /\ req[q].pc = "digest"
    /\ req[q].password # req[r].password

\* C8: a request whose path is outside /admin never gets a 401 (or any
\* response, or a fault) from the gate: it passes through, with or without
\* credentials.
C8_OutsidePrefixBypasses ==
  \A r \in Reqs :
    (req[r].pc = "done" /\ ~Gated(req[r].path)) => req[r].out.kind = "bypass"

\* requests outside the prefix that the gate would have rejected
C8_Witness ==
  \E r \in Reqs :
    /\ req[r].pc = "done"
    /\ req[r].path = <<"adminx">>
    /\ req[r].header \in {Undefined, Some(StrBasic)}
    /\ req[r].out.kind = "bypass"

\* C9: the digest computation is started at most once per request, and only
\* when an Authorization header is present and the decoded username equals
\* the configured username.
C9_UsernameShortCircuits ==
  \A r \in Reqs :
    /\ req[r].digests <= 1
    /\ req[r].pc = "digest" => req[r].digests = 1
    /\ req[r].digests = 1 =>
         /\ req[r].header # Undefined
         /\ req[r].username # Undefined
         /\ req[r].username = env.ADMIN_USERNAME
    /\ ( /\ Answered(r)
         /\ req[r].username # Undefined
         /\ req[r].username # env.ADMIN_USERNAME ) => req[r].digests = 0

\* a request rejected on its username without a digest, while the
\* configuration holds a username
C9_Witness ==
  \E r \in Reqs :
    /\ Answered(r)
    /\ env.ADMIN_USERNAME # Undefined
    /\ req[r].username # Undefined
    /\ req[r].username # env.ADMIN_USERNAME
    /\ req[r].digests = 0
    /\ Rejected401(r)


(***************************************************************************)
(* Specification and properties of the product server actions              *)
(***************************************************************************)
ProductIds == 1..MaxUuid

InitProducts ==
  /\ env = ConcEnv
  /\ req = [r \in Reqs |-> IdleReq]
  /\ ProductsIdle

NextProducts ==
  \/ \E form \in Forms : AddProduct(form)
  \/ AddWriteFile
  \/ AddWriteImage
  \/ AddCreate
  \/ \E id \in ProductIds, form \in Forms : UpdateProduct(id, form)
  \/ UpdateUnlinkFile
  \/ UpdateWriteFile
  \/ UpdateUnlinkImage
  \/ UpdateWriteImage
  \/ UpdateRecord
  \/ \E id \in ProductIds, flag \in BOOLEAN : ToggleProductAvailability(id, flag)
  \/ \E id \in ProductIds : DeleteProduct(id)
  \/ DeleteUnlinkFile
  \/ DeleteUnlinkImage
  \/ Return

SpecProducts == InitProducts /\ [][NextProducts]_vars

\* both files of record p are in storage
FilesExist(p) == p.filePath \in storage /\ PublicPath(p.imagePath) \in storage

\* updateProduct is between its first unlink and db.product.update on record p
MidUpdate(p) ==
  /\ call.op = "updateProduct"
  /\ call.id = p.id
  /\ call.pc \in {"writeFile", "unlinkImage", "writeImage", "update"}

\* every record names files that exist, except the record an updateProduct
\* in progress is rewriting; in particular after every call
RecordsNameFiles ==
  /\ \A p \in db : FilesExist(p) \/ MidUpdate(p)
  /\ call.pc \in {"idle", "returned"} => \A p \in db : FilesExist(p)

\* a record is created only with both its files written by that call; a
\* record's path changes only to a file the running updateProduct has
\* written; a file deleteProduct unlinks is named by no record; a call
\* rejected by validation changes no record and no file
StepsKeepOrder ==
  /\ \A p \in db' :
       Find(p.id) = {} =>
         /\ call.op = "addProduct"
         /\ {p.filePath, PublicPath(p.imagePath)} \subseteq (storage \cap call.written)
  /\ \A p \in db, q \in db' :
       p.id = q.id =>
         /\ q.filePath # p.filePath =>
              call.op = "updateProduct" /\ q.filePath \in (storage \cap call.written)
         /\ q.imagePath # p.imagePath =>
              call.op = "updateProduct" /\ PublicPath(q.imagePath) \in (storage \cap call.written)
  /\ (call.op = "deleteProduct" /\ storage' # storage) =>
       \A p \in db : {p.filePath, PublicPath(p.imagePath)} \cap (storage \ storage') = {}
  /\ call'.result = "fieldErrors" => db' = db /\ storage' = storage

\* C10: with the server actions run one at a time, every record names files
\* that exist after every call; addProduct creates the record after writing
\* both files, updateProduct changes a path only to a file it has written,
\* deleteProduct removes the record before it unlinks; a call rejected by
\* validation writes no file and changes no record.
C10_RecordsNameExistingFiles == []RecordsNameFiles /\ [][StepsKeepOrder]_vars

\* an updateProduct that replaced file and image has returned, next to a
\* second record
C10_Witness ==
  /\ call.op = "updateProduct"
  /\ call.pc = "returned"
  /\ call.result = "redirect"
  /\ Cardinality(call.written) = 2
  /\ Cardinality(db) = 2
  /\ \A p \in db : FilesExist(p)

====
